---- MODULE Spec2Model ----
(***************************************************************************)
(* Model of the yanshi-events-backend request handlers                     *)
(* (categoryController.js, subcategoryController.js, eventController.js)   *)
(* running against the relational store they reach through Prisma.         *)
(*                                                                         *)
(* A handler is split at its awaits: every store call is one atomic step,  *)
(* and steps of different requests interleave.  The synchronous code       *)
(* around a store call (schema parsing, id validation, the test of the     *)
(* call's result) belongs to the step of that call.  A request that makes  *)
(* several store calls occupies a slot between them; a request that makes  *)
(* one is a single step.  resp holds the response a step has just sent,    *)
(* beside the store as that step left it.                                  *)
(***************************************************************************)
EXTENDS Integers, Sequences, FiniteSets, TLC

VARIABLES categories, subcategories, events, nextId, pc, local, resp, overlap

store == <<categories, subcategories, events>>
vars == <<categories, subcategories, events, nextId, pc, local, resp, overlap>>

-----------------------------------------------------------------------------
(* Bounds *)

\* rows the store creates in one behaviour (ids and creation stamps handed
\* out), when requests arrive one after another and when they overlap
MaxIds == 4
MaxIdsOverlap == 3
\* requests that are between two store calls at the same time
MaxInFlight == 2

Slots == 1..MaxInFlight

-----------------------------------------------------------------------------
(* Identifiers *)

\* The i-th row the store creates gets UuidPool[i]; the last entry is a
\* well-formed UUID that no row ever carries.
UuidPool ==
    << "00000000-0000-4000-8000-000000000001",
       "00000000-0000-4000-8000-000000000002",
       "00000000-0000-4000-8000-000000000003",
       "00000000-0000-4000-8000-000000000004",
       "00000000-0000-4000-8000-000000000005",
       "00000000-0000-4000-8000-000000000006",
       "ffffffff-ffff-4fff-8fff-ffffffffffff" >>

UnknownUuid == UuidPool[Len(UuidPool)]

Uuids == {UuidPool[i] : i \in 1..Len(UuidPool)}

\* strings that are no UUID, in a body or a query
Malformed == {"not-a-uuid", ""}

\* strings that are no UUID, in a path (a path parameter is never empty)
PathMalformed == {"not-a-uuid"}

\* Ids a caller supplies where a Category / Subcategory / Event id is expected:
\* the ids the table's rows carry or other rows name, a well-formed id of no
\* row (every other well-formed id is looked up with the same result), and
\* strings that are no UUID.
CategoryUuids ==
    {r.id : r \in categories} \cup {r.categoryId : r \in subcategories}
        \cup {r.categoryId : r \in events} \cup {UnknownUuid}

SubcategoryUuids ==
    {r.id : r \in subcategories} \cup {r.subcategoryId : r \in events} \cup {UnknownUuid}

EventUuids == {r.id : r \in events} \cup {UnknownUuid}

IsUuidAny(s) == TRUE

\* uuidSchema.safeParse(id).success / uuidSchema inside a z.object
IsUuid(s) == s \in Uuids

IdIndex(id) == CHOOSE i \in 1..Len(UuidPool) : UuidPool[i] = id

-----------------------------------------------------------------------------
(* Names *)

\* Category names a request submits: none, two that differ by case alone, another
NameInputs == {<< >>, <<"a", "b">>, <<"A", "B">>, <<"b">>}

\* Subcategory names a request submits
SubcategoryNameInputs == {<< >>, <<"a", "b">>, <<"A", "B">>}

\* name / venue of an Event body
TextInputs == {<< >>, <<"e">>}

LowerChar(ch) == IF ch = "A" THEN "a" ELSE IF ch = "B" THEN "b" ELSE ch

ToLower(s) == [i \in 1..Len(s) |-> LowerChar(s[i])]

EqualsExact(x, y) == x = y

\* where: { name: { equals: x, mode: "insensitive" } }
EqualsInsensitive(x, y) == ToLower(x) = ToLower(y)

\* z.string().min(1, ...)
MinLength1(s) == Len(s) >= 1

-----------------------------------------------------------------------------
(* Dates *)

NaN == -1

\* Date.parse(val) on the strings the requests submit
DateParse(str) == IF str = "1970-01-02" THEN 86400000 ELSE NaN

DateInputs ==
    { [kind |-> "number", num |-> 1, str |-> ""],
      [kind |-> "number", num |-> 0, str |-> ""],
      [kind |-> "string", num |-> 0, str |-> "1970-01-02"],
      [kind |-> "string", num |-> 0, str |-> "soon"] }

\* z.union([z.number().int().positive(), z.string().refine(!isNaN(Date.parse))])
DateValid(d) ==
    IF d.kind = "number" THEN d.num > 0 ELSE DateParse(d.str) # NaN

\* typeof date === "number" ? new Date(date) : parseDate(date)
EventDate(d) == IF d.kind = "number" THEN d.num ELSE DateParse(d.str)

-----------------------------------------------------------------------------
(* Request inputs *)

CategoryBodies == {[name |-> n] : n \in NameInputs}

SubcategoryBodies ==
    {[name |-> n, categoryId |-> k] :
        n \in SubcategoryNameInputs, k \in CategoryUuids \cup Malformed}

\* bodies that pass createEventSchema with every id a caller may name, and
\* bodies that differ from one of them in one field
EventBodies ==
    LET base == [name |-> <<"e">>, date |-> [kind |-> "number", num |-> 1, str |-> ""],
                 venue |-> <<"e">>, categoryId |-> UnknownUuid, subcategoryId |-> UnknownUuid]
    IN  {[base EXCEPT !.categoryId = k, !.subcategoryId = s] :
            k \in CategoryUuids, s \in SubcategoryUuids}
          \cup {[base EXCEPT !.name = << >>], [base EXCEPT !.venue = << >>],
                [base EXCEPT !.categoryId = "not-a-uuid"], [base EXCEPT !.subcategoryId = ""]}
          \cup {[base EXCEPT !.date = d] : d \in DateInputs}

\* req.query of GET /events/filter: given holds the parameters that are present
Queries ==
    LET none == [given |-> {}, categoryId |-> "", subcategoryId |-> ""]
    IN  {none}
          \cup {[none EXCEPT !.given = {"categoryId"}, !.categoryId = k] :
                  k \in CategoryUuids \cup Malformed}
          \cup {[none EXCEPT !.given = {"subcategoryId"}, !.subcategoryId = k] :
                  k \in SubcategoryUuids \cup Malformed}
          \cup {[given |-> {"categoryId", "subcategoryId"}, categoryId |-> k, subcategoryId |-> k2] :
                  k \in CategoryUuids, k2 \in SubcategoryUuids}
          \cup {[given |-> {"categoryId", "subcategoryId"}, categoryId |-> k, subcategoryId |-> "not-a-uuid"] :
                  k \in CategoryUuids}

\* createCategorySchema.parse(req.body) succeeds
CategoryBodyValid(b) == MinLength1(b.name)

\* createSubcategorySchema.parse(req.body) succeeds
SubcategoryBodyValid(b) == MinLength1(b.name) /\ IsUuid(b.categoryId)

\* createEventSchema.parse(req.body) succeeds (the optional fields are absent)
EventBodyValid(b) ==
    /\ MinLength1(b.name)
    /\ DateValid(b.date)
    /\ MinLength1(b.venue)
    /\ IsUuid(b.categoryId)
    /\ IsUuid(b.subcategoryId)

\* schema.parse(req.query) of the filter route succeeds
QueryValid(q) ==
    /\ "categoryId" \in q.given => IsUuid(q.categoryId)
    /\ "subcategoryId" \in q.given => IsUuid(q.subcategoryId)

-----------------------------------------------------------------------------
(* The store *)

CategoryById(id) == {r \in categories : r.id = id}

SubcategoryById(id) == {r \in subcategories : r.id = id}

EventById(id) == {r \in events : r.id = id}

\* prisma.category.findFirst({ where: { name: { equals, mode: "insensitive" } } })
FindFirstCategory(name) == {r \in categories : EqualsInsensitive(r.name, name)}

FindFirstSubcategoryAnyCategory(name, categoryId) ==
    {r \in subcategories : EqualsInsensitive(r.name, name)}

\* prisma.subcategory.findFirst({ where: { name: { equals, mode: "insensitive" }, categoryId } })
FindFirstSubcategory(name, categoryId) ==
    {r \in subcategories : EqualsInsensitive(r.name, name) /\ r.categoryId = categoryId}

\* the store's unique constraint on Category.name (exact match)
CategoryNameTaken(name) == \E r \in categories : r.name = name

\* the store's unique constraint on Subcategory (name, categoryId) (exact match)
SubcategoryNameTaken(name, categoryId) ==
    \E r \in subcategories : r.name = name /\ r.categoryId = categoryId

ForeignKeysUnchecked(categoryId, subcategoryId, needSub) == TRUE

\* the store's foreign keys, checked when a row is inserted or updated:
\* categoryId references Category.id, and (Event only) subcategoryId references Subcategory.id
ForeignKeysHold(categoryId, subcategoryId, needSub) ==
    /\ CategoryById(categoryId) # {}
    /\ needSub => SubcategoryById(subcategoryId) # {}

\* rows of other tables that reference a Category / a Subcategory
CategoryReferenced(id) ==
    \/ \E r \in subcategories : r.categoryId = id
    \/ \E r \in events : r.categoryId = id

SubcategoryReferenced(id) == \E r \in events : r.subcategoryId = id

\* what the store does with the delete of a row: it removes that row alone,
\* or, if other rows reference it, it may refuse
DeleteRefusals(referenced) == IF referenced THEN {TRUE, FALSE} ELSE {FALSE}

RECURSIVE InsertionOrder(_)
\* findMany without orderBy: rows in the order the store created them
InsertionOrder(S) ==
    IF S = {} THEN << >>
    ELSE LET first == CHOOSE r \in S : \A q \in S : IdIndex(r.id) <= IdIndex(q.id)
         IN  <<first>> \o InsertionOrder(S \ {first})

RECURSIVE OrderByCreatedAtDesc(_)
\* orderBy: { createdAt: "desc" }
OrderByCreatedAtDesc(S) ==
    IF S = {} THEN << >>
    ELSE LET first == CHOOSE r \in S : \A q \in S : r.createdAt >= q.createdAt
         IN  <<first>> \o OrderByCreatedAtDesc(S \ {first})

EventsWhereCategoryOnly(q) ==
    { r \in events :
        ("categoryId" \in q.given /\ q.categoryId # "") => r.categoryId = q.categoryId }

\* where: { categoryId: categoryId || undefined, subcategoryId: subcategoryId || undefined }
EventsWhere(q) ==
    { r \in events :
        /\ ("categoryId" \in q.given /\ q.categoryId # "") => r.categoryId = q.categoryId
        /\ ("subcategoryId" \in q.given /\ q.subcategoryId # "") => r.subcategoryId = q.subcategoryId }

-----------------------------------------------------------------------------
(* Requests *)

\* a request without parameters
NoReq == [none |-> TRUE]

NoLocal == [req |-> NoReq]

\* res.status(status).json(body) of the step just taken; status 0: the request
\* awaits its next store call.  calls / writes count the store calls / the
\* store writes the request has issued so far.
Respond(op, req, status, body, calls, writes) ==
    resp' = [op |-> op, req |-> req, status |-> status,
             body |-> body, calls |-> calls, writes |-> writes]

Finish(c) ==
    /\ pc' = [pc EXCEPT ![c] = "idle"]
    /\ local' = [local EXCEPT ![c] = NoLocal]

Await(c, at, req) ==
    /\ pc' = [pc EXCEPT ![c] = at]
    /\ local' = [local EXCEPT ![c] = [req |-> req]]

NoResp == [op |-> "none", req |-> NoReq, status |-> 0, body |-> << >>,
           calls |-> 0, writes |-> 0]

\* a step is taken once the response of the step before it has left
Ready == resp = NoResp

\* a request arrives; without overlap, when no request is in flight
CanStart == Ready /\ (overlap \/ \A d \in Slots : pc[d] = "idle")

\* a request that makes several store calls takes the first free slot c, and an
\* id is left for every create request in flight and for this one
CanCreate(c) ==
    /\ CanStart
    /\ pc[c] = "idle"
    /\ \A d \in Slots : d < c => pc[d] # "idle"
    /\ nextId + Cardinality({d \in Slots : pc[d] # "idle"})
           <= (IF overlap THEN MaxIdsOverlap ELSE MaxIds)

Init ==
    /\ categories = {}
    /\ subcategories = {}
    /\ events = {}
    /\ nextId = 1
    /\ pc = [c \in Slots |-> "idle"]
    /\ local = [c \in Slots |-> NoLocal]
    /\ resp = NoResp
    /\ overlap = TRUE

\* the same program, its requests arriving one after another
SeqInit ==
    /\ categories = {}
    /\ subcategories = {}
    /\ events = {}
    /\ nextId = 1
    /\ pc = [c \in Slots |-> "idle"]
    /\ local = [c \in Slots |-> NoLocal]
    /\ resp = NoResp
    /\ overlap = FALSE

-----------------------------------------------------------------------------
(* categoryController.js *)

CreateCategoryFindWriteFirst(c, body) ==
    /\ CanCreate(c)
    /\ UNCHANGED <<subcategories, events, overlap, pc, local>>
    /\ IF ~CategoryBodyValid(body)
       THEN /\ Respond("createCategory", body, 400, << >>, 0, 0)
            /\ UNCHANGED <<categories, nextId>>
       ELSE /\ categories' = categories \cup {[id |-> UuidPool[nextId], name |-> body.name]}
            /\ nextId' = nextId + 1
            /\ IF FindFirstCategory(body.name) # {}
               THEN Respond("createCategory", body, 409, << >>, 2, 1)
               ELSE Respond("createCategory", body, 200, << >>, 2, 1)

\* createCategory up to its findFirst and the test of its result
CreateCategoryFind(c, body) ==
    /\ CanCreate(c)
    /\ UNCHANGED <<store, nextId, overlap>>
    /\ IF ~CategoryBodyValid(body)
       THEN /\ Respond("createCategory", body, 400, << >>, 0, 0)
            /\ UNCHANGED <<pc, local>>
       ELSE IF FindFirstCategory(body.name) # {}
       THEN /\ Respond("createCategory", body, 409, << >>, 1, 0)
            /\ UNCHANGED <<pc, local>>
       ELSE /\ Await(c, "createCategory_create", body)
            /\ UNCHANGED resp

\* createCategory: prisma.category.create and the response
CreateCategoryWrite(c) ==
    /\ Ready
    /\ pc[c] = "createCategory_create"
    /\ Finish(c)
    /\ UNCHANGED <<subcategories, events, overlap>>
    /\ LET body == local[c].req
           row == [id |-> UuidPool[nextId], name |-> body.name]
       IN  IF CategoryNameTaken(body.name)
           THEN /\ Respond("createCategory", body, 500, << >>, 2, 1)
                /\ UNCHANGED <<categories, nextId>>
           ELSE /\ categories' = categories \cup {row}
                /\ nextId' = nextId + 1
                /\ Respond("createCategory", body, 200, <<row>>, 2, 1)

GetCategories ==
    /\ CanStart
    /\ Respond("getCategories", NoReq, 200, InsertionOrder(categories), 1, 0)
    /\ UNCHANGED <<store, nextId, pc, local, overlap>>

DeleteCategoryCascade(id) ==
    /\ CanStart
    /\ UNCHANGED <<nextId, pc, local, overlap>>
    /\ IF ~IsUuid(id)
       THEN /\ Respond("deleteCategory", [id |-> id], 400, << >>, 0, 0)
            /\ UNCHANGED store
       ELSE IF CategoryById(id) = {}
       THEN /\ Respond("deleteCategory", [id |-> id], 500, << >>, 1, 1)
            /\ UNCHANGED store
       ELSE /\ categories' = categories \ CategoryById(id)
            /\ subcategories' = {r \in subcategories : r.categoryId # id}
            /\ events' = {r \in events : r.categoryId # id}
            /\ Respond("deleteCategory", [id |-> id], 200, << >>, 1, 1)

\* prisma.category.delete fails when no row has the id
DeleteCategory(id) ==
    /\ CanStart
    /\ UNCHANGED <<subcategories, events, nextId, pc, local, overlap>>
    /\ IF ~IsUuid(id)
       THEN /\ Respond("deleteCategory", [id |-> id], 400, << >>, 0, 0)
            /\ UNCHANGED categories
       ELSE \E refused \in DeleteRefusals(CategoryReferenced(id)) :
              IF CategoryById(id) = {} \/ refused
              THEN /\ Respond("deleteCategory", [id |-> id], 500, << >>, 1, 1)
                   /\ UNCHANGED categories
              ELSE /\ categories' = categories \ CategoryById(id)
                   /\ Respond("deleteCategory", [id |-> id], 200, << >>, 1, 1)

-----------------------------------------------------------------------------
(* subcategoryController.js *)

\* createSubcategory up to its findFirst and the test of its result
CreateSubcategoryFind(c, body) ==
    /\ CanCreate(c)
    /\ UNCHANGED <<store, nextId, overlap>>
    /\ IF ~SubcategoryBodyValid(body)
       THEN /\ Respond("createSubcategory", body, 400, << >>, 0, 0)
            /\ UNCHANGED <<pc, local>>
       ELSE IF FindFirstSubcategory(body.name, body.categoryId) # {}
       THEN /\ Respond("createSubcategory", body, 409, << >>, 1, 0)
            /\ UNCHANGED <<pc, local>>
       ELSE /\ Await(c, "createSubcategory_create", body)
            /\ UNCHANGED resp

\* createSubcategory: prisma.subcategory.create and the response
CreateSubcategoryWrite(c) ==
    /\ Ready
    /\ pc[c] = "createSubcategory_create"
    /\ Finish(c)
    /\ UNCHANGED <<categories, events, overlap>>
    /\ LET body == local[c].req
           row == [id |-> UuidPool[nextId], name |-> body.name,
                   categoryId |-> body.categoryId]
       IN  IF \/ ~ForeignKeysHold(body.categoryId, "", FALSE)
              \/ SubcategoryNameTaken(body.name, body.categoryId)
           THEN /\ Respond("createSubcategory", body, 500, << >>, 2, 1)
                /\ UNCHANGED <<subcategories, nextId>>
           ELSE /\ subcategories' = subcategories \cup {row}
                /\ nextId' = nextId + 1
                /\ Respond("createSubcategory", body, 200, <<row>>, 2, 1)

GetSubcategories ==
    /\ CanStart
    /\ Respond("getSubcategories", NoReq, 200, InsertionOrder(subcategories), 1, 0)
    /\ UNCHANGED <<store, nextId, pc, local, overlap>>

\* prisma.subcategory.delete fails when no row has the id
DeleteSubcategory(id) ==
    /\ CanStart
    /\ UNCHANGED <<categories, events, nextId, pc, local, overlap>>
    /\ IF ~IsUuid(id)
       THEN /\ Respond("deleteSubcategory", [id |-> id], 400, << >>, 0, 0)
            /\ UNCHANGED subcategories
       ELSE \E refused \in DeleteRefusals(SubcategoryReferenced(id)) :
              IF SubcategoryById(id) = {} \/ refused
              THEN /\ Respond("deleteSubcategory", [id |-> id], 500, << >>, 1, 1)
                   /\ UNCHANGED subcategories
              ELSE /\ subcategories' = subcategories \ SubcategoryById(id)
                   /\ Respond("deleteSubcategory", [id |-> id], 200, << >>, 1, 1)

GetSubcategoriesByCategoryId(id) ==
    /\ CanStart
    /\ UNCHANGED <<store, nextId, pc, local, overlap>>
    /\ IF ~IsUuid(id)
       THEN Respond("getSubcategoriesByCategoryId", [id |-> id], 400, << >>, 0, 0)
       ELSE Respond("getSubcategoriesByCategoryId", [id |-> id], 200,
                    InsertionOrder({r \in subcategories : r.categoryId = id}), 1, 0)

-----------------------------------------------------------------------------
(* eventController.js *)

\* data: { ...parsedData, date: eventDate }, with the id and the creation
\* stamp the store gives the row
EventRow(id, body, createdAt) ==
    [id |-> id, name |-> body.name, date |-> EventDate(body.date), venue |-> body.venue,
     categoryId |-> body.categoryId, subcategoryId |-> body.subcategoryId,
     createdAt |-> createdAt]

CreateEventFindCategoryNoCheck(c, body) ==
    /\ CanCreate(c)
    /\ UNCHANGED <<store, nextId, overlap>>
    /\ IF ~EventBodyValid(body)
       THEN /\ Respond("createEvent", body, 400, << >>, 0, 0)
            /\ UNCHANGED <<pc, local>>
       ELSE /\ Await(c, "createEvent_findSubcategory", body)
            /\ UNCHANGED resp

\* createEvent up to prisma.category.findUnique and the test of its result
CreateEventFindCategory(c, body) ==
    /\ CanCreate(c)
    /\ UNCHANGED <<store, nextId, overlap>>
    /\ IF ~EventBodyValid(body)
       THEN /\ Respond("createEvent", body, 400, << >>, 0, 0)
            /\ UNCHANGED <<pc, local>>
       ELSE IF CategoryById(body.categoryId) = {}
       THEN /\ Respond("createEvent", body, 404, <<[missing |-> body.categoryId]>>, 1, 0)
            /\ UNCHANGED <<pc, local>>
       ELSE /\ Await(c, "createEvent_findSubcategory", body)
            /\ UNCHANGED resp

CreateEventFindSubcategoryOfCategory(c) ==
    /\ Ready
    /\ pc[c] = "createEvent_findSubcategory"
    /\ UNCHANGED <<store, nextId, overlap>>
    /\ LET body == local[c].req
       IN  IF {r \in SubcategoryById(body.subcategoryId) : r.categoryId = body.categoryId} = {}
           THEN /\ Respond("createEvent", body, 404, <<[missing |-> body.subcategoryId]>>, 2, 0)
                /\ Finish(c)
           ELSE /\ Await(c, "createEvent_create", body)
                /\ UNCHANGED resp

\* createEvent: prisma.subcategory.findUnique and the test of its result
CreateEventFindSubcategory(c) ==
    /\ Ready
    /\ pc[c] = "createEvent_findSubcategory"
    /\ UNCHANGED <<store, nextId, overlap>>
    /\ LET body == local[c].req
       IN  IF SubcategoryById(body.subcategoryId) = {}
           THEN /\ Respond("createEvent", body, 404, <<[missing |-> body.subcategoryId]>>, 2, 0)
                /\ Finish(c)
           ELSE /\ Await(c, "createEvent_create", body)
                /\ UNCHANGED resp

\* createEvent: prisma.event.create and the response
CreateEventWrite(c) ==
    /\ Ready
    /\ pc[c] = "createEvent_create"
    /\ Finish(c)
    /\ UNCHANGED <<categories, subcategories, overlap>>
    /\ LET body == local[c].req
           row == EventRow(UuidPool[nextId], body, nextId)
       IN  IF ~ForeignKeysHold(body.categoryId, body.subcategoryId, TRUE)
           THEN /\ Respond("createEvent", body, 500, << >>, 3, 1)
                /\ UNCHANGED <<events, nextId>>
           ELSE /\ events' = events \cup {row}
                /\ nextId' = nextId + 1
                /\ Respond("createEvent", body, 200, <<row>>, 3, 1)

GetEvents ==
    /\ CanStart
    /\ Respond("getEvents", NoReq, 200, OrderByCreatedAtDesc(events), 1, 0)
    /\ UNCHANGED <<store, nextId, pc, local, overlap>>

GetEventById(id) ==
    /\ CanStart
    /\ UNCHANGED <<store, nextId, pc, local, overlap>>
    /\ IF ~IsUuid(id)
       THEN Respond("getEventById", [id |-> id], 400, << >>, 0, 0)
       ELSE IF EventById(id) = {}
       THEN Respond("getEventById", [id |-> id], 404, << >>, 1, 0)
       ELSE Respond("getEventById", [id |-> id], 200, InsertionOrder(EventById(id)), 1, 0)

\* prisma.event.update fails when no row has the id
UpdateEvent(id, body) ==
    /\ CanStart
    /\ UNCHANGED <<categories, subcategories, nextId, pc, local, overlap>>
    /\ LET req == [id |-> id, body |-> body]
       IN  IF ~IsUuid(id)
           THEN /\ Respond("updateEvent", req, 400, << >>, 0, 0)
                /\ UNCHANGED events
           ELSE IF ~EventBodyValid(body)
           THEN /\ Respond("updateEvent", req, 400, <<[errors |-> TRUE]>>, 0, 0)
                /\ UNCHANGED events
           ELSE IF \/ EventById(id) = {}
                   \/ ~ForeignKeysHold(body.categoryId, body.subcategoryId, TRUE)
           THEN /\ Respond("updateEvent", req, 500, << >>, 1, 1)
                /\ UNCHANGED events
           ELSE LET old == CHOOSE r \in events : r.id = id
                    row == EventRow(id, body, old.createdAt)
                IN  /\ events' = (events \ {old}) \cup {row}
                    /\ Respond("updateEvent", req, 200, <<row>>, 1, 1)

\* prisma.event.delete fails when no row has the id
DeleteEvent(id) ==
    /\ CanStart
    /\ UNCHANGED <<categories, subcategories, nextId, pc, local, overlap>>
    /\ IF ~IsUuid(id)
       THEN /\ Respond("deleteEvent", [id |-> id], 400, << >>, 0, 0)
            /\ UNCHANGED events
       ELSE IF EventById(id) = {}
       THEN /\ Respond("deleteEvent", [id |-> id], 500, << >>, 1, 1)
            /\ UNCHANGED events
       ELSE /\ events' = events \ EventById(id)
            /\ Respond("deleteEvent", [id |-> id], 200, << >>, 1, 1)

GetEventsByCategoryAndSubcategory(q) ==
    /\ CanStart
    /\ UNCHANGED <<store, nextId, pc, local, overlap>>
    /\ IF ~QueryValid(q)
       THEN Respond("getEventsByCategoryAndSubcategory", q, 400, << >>, 0, 0)
       ELSE Respond("getEventsByCategoryAndSubcategory", q, 200,
                    OrderByCreatedAtDesc(EventsWhere(q)), 1, 0)

\* res.json / res.status().json: the response has left
ResponseSent ==
    /\ resp # NoResp
    /\ resp' = NoResp
    /\ UNCHANGED <<store, nextId, pc, local, overlap>>

-----------------------------------------------------------------------------

Next ==
    \/ \E c \in Slots, body \in CategoryBodies : CreateCategoryFind(c, body)
    \/ \E c \in Slots : CreateCategoryWrite(c)
    \/ GetCategories
    \/ \E id \in CategoryUuids \cup PathMalformed : DeleteCategory(id)
    \/ \E c \in Slots, body \in SubcategoryBodies : CreateSubcategoryFind(c, body)
    \/ \E c \in Slots : CreateSubcategoryWrite(c)
    \/ GetSubcategories
    \/ \E id \in SubcategoryUuids \cup PathMalformed : DeleteSubcategory(id)
    \/ \E id \in CategoryUuids \cup PathMalformed : GetSubcategoriesByCategoryId(id)
    \/ \E c \in Slots, body \in EventBodies : CreateEventFindCategory(c, body)
    \/ \E c \in Slots : CreateEventFindSubcategory(c)
    \/ \E c \in Slots : CreateEventWrite(c)
    \/ GetEvents
    \/ \E id \in EventUuids \cup PathMalformed : GetEventById(id)
    \/ \E id \in EventUuids \cup PathMalformed, body \in EventBodies : UpdateEvent(id, body)
    \/ \E id \in EventUuids \cup PathMalformed : DeleteEvent(id)
    \/ \E q \in Queries : GetEventsByCategoryAndSubcategory(q)
    \/ ResponseSent

\* requests overlap
Spec == Init /\ [][Next]_vars

\* requests arrive one after another
SeqSpec == SeqInit /\ [][Next]_vars

-----------------------------------------------------------------------------
(* Vocabulary of the claims *)

\* two names are equal when letter case is ignored
SameIgnoringCase(x, y) ==
    /\ Len(x) = Len(y)
    /\ \A i \in 1..Len(x) : x[i] = y[i] \/ {x[i], y[i]} \in {{"a", "A"}, {"b", "B"}}

HasCategory(id) == \E r \in categories : r.id = id

HasSubcategory(id) == \E r \in subcategories : r.id = id

\* the step just taken answered a request
Answered == resp # NoResp

\* a well-formed createEvent / updateEvent body
WellFormedEvent(b) ==
    /\ b.name # << >>
    /\ b.venue # << >>
    /\ b.date \in {[kind |-> "number", num |-> 1, str |-> ""],
                   [kind |-> "string", num |-> 0, str |-> "1970-01-02"]}
    /\ b.categoryId \notin Malformed
    /\ b.subcategoryId \notin Malformed

IdRoutes == {"deleteCategory", "deleteSubcategory", "getSubcategoriesByCategoryId",
             "getEventById", "updateEvent", "deleteEvent"}

-----------------------------------------------------------------------------
(* C1: after any interleaving of createCategory and deleteCategory requests, *)
(* no two stored Categories have names that are equal ignoring letter case.  *)
(* Two overlapping createCategory requests break it.                         *)
CategoryNamesUniqueIgnoringCase ==
    \A r \in categories : \A q \in categories :
        r # q => ~SameIgnoringCase(r.name, q.name)

-----------------------------------------------------------------------------
(* C2: with requests one after another, a createCategory whose valid name    *)
(* equals a stored Category's name ignoring case is answered 409 and creates *)
(* no row; otherwise it inserts exactly one Category carrying the name as    *)
(* submitted, and a getCategories lists every stored name exactly once.      *)
CreateCategoryOutcome ==
    (resp'.op = "createCategory" /\ resp'.req.name # << >>) =>
        LET name == resp'.req.name
        IN  IF \E r \in categories : SameIgnoringCase(r.name, name)
            THEN resp'.status = 409 /\ categories' = categories
            ELSE /\ resp'.status = 200
                 /\ \E row \in categories' :
                      /\ row \notin categories
                      /\ categories' = categories \cup {row}
                      /\ row.name = name
                 /\ Cardinality({r \in categories' : r.name = name}) = 1

GetCategoriesOutcome ==
    resp'.op = "getCategories" =>
        /\ resp'.status = 200
        /\ \A r \in categories :
             Cardinality({i \in 1..Len(resp'.body) : resp'.body[i].name = r.name}) = 1
        /\ \A i \in 1..Len(resp'.body) : resp'.body[i] \in categories

SequentialCreateCategory == [][CreateCategoryOutcome /\ GetCategoriesOutcome]_vars

\* a name that differs from a stored one by case alone was refused
SequentialCreateCategoryWitness ==
    /\ resp.op = "createCategory"
    /\ resp.status = 409
    /\ \E r \in categories : r.name # resp.req.name /\ SameIgnoringCase(r.name, resp.req.name)

-----------------------------------------------------------------------------
(* C3: a createEvent with a well-formed body whose categoryId matches no     *)
(* stored Category is answered 404 naming that categoryId and leaves the     *)
(* stored Events as they were, also when the subcategoryId matches nothing.  *)
CreateEventMissingCategoryOutcome ==
    /\ (resp'.op = "createEvent" /\ pc' = pc /\ WellFormedEvent(resp'.req)
            /\ ~HasCategory(resp'.req.categoryId)) =>
          /\ resp'.status = 404
          /\ resp'.body = <<[missing |-> resp'.req.categoryId]>>
          /\ events' = events
    /\ \A c \in Slots :
          (pc[c] = "idle" /\ pc'[c] = "createEvent_findSubcategory") =>
              HasCategory(local'[c].req.categoryId)

CreateEventMissingCategory == [][CreateEventMissingCategoryOutcome]_vars

CreateEventMissingCategoryWitness ==
    /\ resp.op = "createEvent"
    /\ resp.status = 404
    /\ resp.body = <<[missing |-> resp.req.categoryId]>>
    /\ ~HasSubcategory(resp.req.subcategoryId)
    /\ categories # {}

-----------------------------------------------------------------------------
(* C4: at the step where createEvent inserts or updateEvent updates an Event *)
(* row, the Category and the Subcategory the written row names exist, in any *)
(* interleaving with deleteCategory and deleteSubcategory requests.          *)
WrittenEventResolvesOutcome ==
    \A r \in events' \ events :
        HasCategory(r.categoryId) /\ HasSubcategory(r.subcategoryId)

WrittenEventResolves == [][WrittenEventResolvesOutcome]_vars

\* an updateEvent has rewritten a row
WrittenEventResolvesWitness ==
    /\ resp.op = "updateEvent"
    /\ resp.status = 200
    /\ resp.body[1] \in events

-----------------------------------------------------------------------------
(* C5: with requests one after another, a createSubcategory with a valid     *)
(* name and categoryId is answered 409, creating no row, exactly when a      *)
(* stored Subcategory of the same categoryId has that name ignoring case; a  *)
(* Subcategory of that name under another categoryId causes no conflict.     *)
CreateSubcategoryOutcome ==
    (resp'.op = "createSubcategory" /\ resp'.req.name # << >>
        /\ resp'.req.categoryId \notin Malformed) =>
        LET clash == \E r \in subcategories :
                        /\ r.categoryId = resp'.req.categoryId
                        /\ SameIgnoringCase(r.name, resp'.req.name)
        IN  /\ resp'.status = 409 <=> clash
            /\ resp'.status = 409 => subcategories' = subcategories

SequentialCreateSubcategory == [][CreateSubcategoryOutcome]_vars

\* the name is stored under two Categories
SequentialCreateSubcategoryWitness ==
    /\ resp.op = "createSubcategory"
    /\ resp.status = 200
    /\ \E r \in subcategories :
          /\ r.categoryId # resp.req.categoryId
          /\ SameIgnoringCase(r.name, resp.req.name)
    /\ resp.body[1] \in subcategories

-----------------------------------------------------------------------------
(* C6: on every route with an id in its path, an id that is no UUID is       *)
(* answered 400, whatever the rest of the request and the store, before any  *)
(* store call, and the store is left as it was.                              *)
MalformedIdOutcome ==
    (resp'.op \in IdRoutes /\ resp'.req.id \notin Uuids) =>
        /\ resp'.status = 400
        /\ resp'.calls = 0
        /\ resp'.writes = 0
        /\ store' = store

MalformedIdRejected == [][MalformedIdOutcome]_vars

\* an updateEvent whose body is well formed and whose id is not
MalformedIdRejectedWitness ==
    /\ resp.op = "updateEvent"
    /\ resp.req.id = "not-a-uuid"
    /\ WellFormedEvent(resp.req.body)
    /\ HasCategory(resp.req.body.categoryId)
    /\ events # {}
    /\ resp.status = 400

-----------------------------------------------------------------------------
(* C7: getEventsByCategoryAndSubcategory returns exactly the stored Events   *)
(* whose categoryId and subcategoryId equal the filters that are given, by   *)
(* creation time descending; with both omitted these are all stored Events,  *)
(* in the order of getEvents.                                                *)
DescendingByCreation(b) ==
    \A i \in 1..Len(b) : \A j \in 1..Len(b) : i < j => b[i].createdAt > b[j].createdAt

FilterOutcome ==
    /\ (resp.op = "getEventsByCategoryAndSubcategory"
            /\ (resp.req.given \cap {"categoryId"} # {} => resp.req.categoryId \notin Malformed)
            /\ (resp.req.given \cap {"subcategoryId"} # {} => resp.req.subcategoryId \notin Malformed)) =>
          LET q == resp.req
              b == resp.body
          IN  /\ resp.status = 200
              /\ {b[i] : i \in 1..Len(b)} =
                    { r \in events :
                        /\ "categoryId" \in q.given => r.categoryId = q.categoryId
                        /\ "subcategoryId" \in q.given => r.subcategoryId = q.subcategoryId }
              /\ DescendingByCreation(b)
              /\ q.given = {} => {b[i] : i \in 1..Len(b)} = events
    /\ resp.op = "getEvents" =>
          /\ resp.status = 200
          /\ {resp.body[i] : i \in 1..Len(resp.body)} = events
          /\ DescendingByCreation(resp.body)

\* two Events listed by a filter that gives both ids
FilterOutcomeWitness ==
    /\ resp.op = "getEventsByCategoryAndSubcategory"
    /\ resp.req.given = {"categoryId", "subcategoryId"}
    /\ resp.status = 200
    /\ Len(resp.body) = 2

-----------------------------------------------------------------------------
(* C8: deleteCategory leaves the stored Subcategories and Events unchanged   *)
(* and removes at most the Category row with the id, also when Subcategories *)
(* and Events reference it.                                                  *)
DeleteCategoryOutcome ==
    resp'.op = "deleteCategory" =>
        /\ subcategories' = subcategories
        /\ events' = events
        /\ categories' \subseteq categories
        /\ \A r \in categories \ categories' : r.id = resp'.req.id

DeleteCategoryNoCascade == [][DeleteCategoryOutcome]_vars

\* the deleted Category is named by a stored Subcategory
DeleteCategoryNoCascadeWitness ==
    /\ resp.op = "deleteCategory"
    /\ resp.status = 200
    /\ ~HasCategory(resp.req.id)
    /\ \E r \in subcategories : r.categoryId = resp.req.id

-----------------------------------------------------------------------------
(* C9: a request answered with a status other than 200 leaves the stored     *)
(* Categories, Subcategories and Events as they were, and no request makes   *)
(* more than one write: a step that changes the store answers 200, is the    *)
(* request's only write and changes one table.                               *)
FailureLeavesStoreOutcome ==
    /\ (Answered' /\ resp'.status # 200) => store' = store
    /\ store' # store =>
          /\ Answered'
          /\ resp'.status = 200
          /\ resp'.writes = 1
          /\ Cardinality({t \in 1..3 : store'[t] # store[t]}) = 1
    /\ Answered' => resp'.writes <= 1

FailureLeavesStore == [][FailureLeavesStoreOutcome]_vars

\* the store refused a write
FailureLeavesStoreWitness ==
    /\ resp.status = 500
    /\ resp.writes = 1
    /\ resp.op = "createEvent"

-----------------------------------------------------------------------------
(* C10: with requests one after another, a createEvent whose categoryId and  *)
(* subcategoryId both exist succeeds and stores the Event, whether or not    *)
(* that Subcategory belongs to that Category.                                *)
CreateEventOutcome ==
    (resp'.op = "createEvent" /\ WellFormedEvent(resp'.req)
        /\ HasCategory(resp'.req.categoryId) /\ HasSubcategory(resp'.req.subcategoryId)) =>
        /\ resp'.status = 200
        /\ \E row \in events' :
              /\ row \notin events
              /\ events' = events \cup {row}
              /\ row.categoryId = resp'.req.categoryId
              /\ row.subcategoryId = resp'.req.subcategoryId

CreateEventIgnoresParent == [][CreateEventOutcome]_vars

\* a stored Event whose Subcategory belongs to another Category
CreateEventIgnoresParentWitness ==
    /\ resp.op = "createEvent"
    /\ resp.status = 200
    /\ resp.body[1] \in events
    /\ \E r \in subcategories :
          /\ r.id = resp.body[1].subcategoryId
          /\ r.categoryId # resp.body[1].categoryId
    /\ HasCategory(resp.body[1].categoryId)

====
